---------------------------- MODULE Spec2Model ----------------------------
(***************************************************************************)
(* Request / retry / classification pipeline of PluggedInClient            *)
(* (src/src/client.ts).                                                    *)
(*                                                                         *)
(* One logical call is followed from its entry point (request, query,      *)
(* rawQuery) through the dispatches made on the client's axios instance.   *)
(* handleRequestError is registered as the response-error interceptor of   *)
(* that instance (client.ts:265-268), so it runs, with its default         *)
(* retryAttempt = 0, for the failure of every axiosInstance.request call:  *)
(* the one made by request() (client.ts:311) and the one made by           *)
(* handleRequestError itself when it retries (client.ts:614).  The         *)
(* suspended invocations of handleRequestError form a stack.               *)
(***************************************************************************)
EXTENDS Integers, Sequences, FiniteSets, TLC

VARIABLES
    apiToken,      \* this.apiToken: "null" or a token
    retryConfig,   \* this.retryConfig
    defaults,      \* defaultModel / defaultInputEncoding / defaultOutputEncoding
    call,          \* the entry point and arguments of the logical call
    wire,          \* the request composed for the call
    pc,            \* "idle" | "inflight" | "waiting" | "resolved" | "rejected"
    stack,         \* retryAttempt of every suspended handleRequestError, outermost first
    inflight,      \* config of the request being dispatched: "original" | "empty" | "none"
    waitTime,      \* value handed to setTimeout by the current backoff wait
    dispatches,    \* number of axiosInstance.request dispatches made for the call
    lastOutcome,   \* transport outcome of the latest completed dispatch
    retryableRun,  \* TRUE while every failed dispatch failed with a listed status or no response
    firstFailure,  \* of the first failed dispatch: whether it was a 429, and its Retry-After in ms
    decision,      \* the shouldRetryRequest evaluations of the latest interceptor run
    result,        \* what the caller receives
    waits,         \* number of backoff waits (client.ts:608) of the call that have elapsed
    outstanding,   \* number of dispatches of the call the transport has not settled yet
    headers,       \* Authorization entries of axiosInstance.defaults.headers
    sent,          \* Authorization header carried by each dispatch of the call, in order
    peers          \* two logical calls issued on the same client, each with its own handlers

vars == <<apiToken, retryConfig, defaults, call, wire, pc, stack, inflight, waitTime,
          dispatches, lastOutcome, retryableRun, firstFailure, decision, result,
          waits, outstanding, headers, sent, peers>>

-----------------------------------------------------------------------------
(* Bounds of the model *)

MaxDispatch == 4
MaxRetriesBound == 2
MaxAttemptN == 4
MaxPairDispatch == 3

(* JavaScript values with no integer counterpart *)
NaN == -1
Undefined == -2

NonDigit == 10

-----------------------------------------------------------------------------
(* Arithmetic of the backoff computation *)

Min(a, b) == IF a <= b THEN a ELSE b

\* Math.max: NaN if either argument is NaN
MathMax(a, b) == IF a = NaN \/ b = NaN THEN NaN ELSE IF a >= b THEN a ELSE b

RECURSIVE Pow(_, _)
Pow(b, n) == IF n = 0 THEN 1 ELSE b * Pow(b, n - 1)

RECURSIVE LeadingDigits(_, _)
LeadingDigits(s, acc) ==
    IF s = <<>> \/ Head(s) = NonDigit THEN acc
    ELSE LeadingDigits(Tail(s), acc * 10 + Head(s))

\* parseInt(s, 10) of a string given as its characters (0..9 digits, NonDigit otherwise)
ParseInt(s) ==
    IF s = <<>> \/ Head(s) = NonDigit THEN NaN ELSE LeadingDigits(s, 0)

Times1000(x) == IF x = NaN THEN NaN ELSE x * 1000

DEFAULT_RETRY_CONFIG ==
    [maxRetries |-> 3, initialDelay |-> 1000, backoffFactor |-> 2,
     maxDelay |-> 30000, retryStatusCodes |-> {408, 429, 500, 502, 503, 504},
     retryCondition |-> "none"]

-----------------------------------------------------------------------------
(* Errors as handleRequestError sees them *)

\* error of a failed dispatch, as rejected by the transport
TransportError(o) ==
    [response   |-> o.kind = "resp",
     request    |-> o.kind \in {"resp", "noresp"},
     status     |-> o.status,
     body       |-> o.body,
     retryAfter |-> o.retryAfter,
     config     |-> o.config,
     name       |-> IF o.kind = "setup" /\ o.config = "none" THEN "Error" ELSE "AxiosError",
     message    |-> "transport message"]

\* an error thrown by a nested handleRequestError, caught at client.ts:616:
\* an ApiError (or TypeError) instance has no response, request or config
ThrownError(t) ==
    [response   |-> FALSE,
     request    |-> FALSE,
     status     |-> 0,
     body       |-> "none",
     retryAfter |-> <<>>,
     config     |-> "none",
     name       |-> t.kind,
     message    |-> t.message]

\* the user-supplied retryCondition predicate
RetryCondition(cond, error) ==
    CASE cond = "always" -> TRUE
      [] cond = "never"  -> FALSE
      [] cond = "on404"  -> error.response /\ error.status = 404
      [] OTHER           -> FALSE

shouldRetryRequest_predicateFirst(error, retryAttempt, cfg) ==
    IF cfg.retryCondition # "none" /\ RetryCondition(cfg.retryCondition, error) THEN TRUE
    ELSE IF retryAttempt >= cfg.maxRetries THEN FALSE
    ELSE IF ~error.response THEN TRUE
    ELSE IF error.status # 0 /\ error.status \in cfg.retryStatusCodes THEN TRUE
    ELSE FALSE

shouldRetryRequest_offByOne(error, retryAttempt, cfg) ==
    IF retryAttempt + 1 >= cfg.maxRetries THEN FALSE
    ELSE IF ~error.response THEN TRUE
    ELSE IF error.status # 0 /\ error.status \in cfg.retryStatusCodes THEN TRUE
    ELSE IF cfg.retryCondition # "none" /\ RetryCondition(cfg.retryCondition, error) THEN TRUE
    ELSE FALSE

shouldRetryRequest_noPredicate(error, retryAttempt, cfg) ==
    IF retryAttempt >= cfg.maxRetries THEN FALSE
    ELSE IF ~error.response THEN TRUE
    ELSE IF error.status # 0 /\ error.status \in cfg.retryStatusCodes THEN TRUE
    ELSE FALSE

shouldRetryRequest(error, retryAttempt, cfg) ==
    IF retryAttempt >= cfg.maxRetries THEN FALSE
    ELSE IF ~error.response THEN TRUE
    ELSE IF error.status # 0 /\ error.status \in cfg.retryStatusCodes THEN TRUE
    ELSE IF cfg.retryCondition # "none" /\ RetryCondition(cfg.retryCondition, error) THEN TRUE
    ELSE FALSE

backoffDelay_uncapped(cfg, retryAttempt) ==
    cfg.initialDelay * Pow(cfg.backoffFactor, retryAttempt)

\* client.ts:593-596
backoffDelay(cfg, retryAttempt) ==
    Min(cfg.initialDelay * Pow(cfg.backoffFactor, retryAttempt), cfg.maxDelay)

\* client.ts:599-602
retryAfterMs(error) ==
    IF error.response /\ error.retryAfter # <<>>
    THEN Times1000(ParseInt(error.retryAfter))
    ELSE 0

\* client.ts:605
computeWaitTime(error, retryAttempt, cfg) ==
    MathMax(backoffDelay(cfg, retryAttempt), retryAfterMs(error))

\* client.ts:608: the time a timer armed with setTimeout(resolve, ms) runs; a
\* delay that is NaN or below 1 is taken as 1 ms
setTimeoutDelay(ms) == IF ms = NaN \/ ms < 1 THEN 1 ELSE ms

\* data.message || <default>
BodyMessage(error, dflt) == IF error.body = "message" THEN "body message" ELSE dflt

TypedError(kind, statusCode, message, attempt, maxAttempts, after, original) ==
    [kind |-> kind, message |-> message, statusCode |-> statusCode,
     attempt |-> attempt, maxAttempts |-> maxAttempts,
     after |-> after, original |-> original]

\* the TypeError raised by data.message when the response body is null
\* (client.ts:639, 645, 654, 660, 666); it is not an ApiError
BodyTypeError ==
    TypedError("TypeError", Undefined, "Cannot read properties of null",
               Undefined, Undefined, Undefined, "none")

\* client.ts:622-697: what handleRequestError throws when it does not retry
classifyError(error, retryAttempt, cfg) ==
    IF error.response THEN
        IF error.body = "null" THEN BodyTypeError
        ELSE IF error.status = 401
        THEN TypedError("Authentication", error.status,
                  BodyMessage(error, "Authentication failed. Please check your API token."),
                  retryAttempt, cfg.maxRetries, Undefined, "none")
        ELSE IF error.status = 400
        THEN TypedError("Validation", error.status,
                  BodyMessage(error, "Invalid request parameters"),
                  retryAttempt, cfg.maxRetries, Undefined, "none")
        ELSE IF error.status = 429
        THEN TypedError("RateLimit", error.status,
                  BodyMessage(error, "Rate limit exceeded. Please try again later."),
                  retryAttempt, cfg.maxRetries,
                  IF error.retryAfter # <<>> THEN ParseInt(error.retryAfter) ELSE Undefined,
                  "none")
        ELSE IF error.status >= 500
        THEN TypedError("Server", error.status,
                  BodyMessage(error, "Server error occurred. Please try again later."),
                  retryAttempt, cfg.maxRetries, Undefined, "none")
        ELSE TypedError("Api", error.status,
                  BodyMessage(error, "API error with status code"),
                  retryAttempt, cfg.maxRetries, Undefined, "none")
    ELSE IF error.request
    THEN TypedError("Network", 0,
              "No response received from the server. Please check your network connection.",
              retryAttempt, cfg.maxRetries, Undefined, error.name)
    ELSE TypedError("Api", 0, error.message, retryAttempt, cfg.maxRetries, Undefined, error.name)

NoError == TypedError("none", Undefined, "", Undefined, Undefined, Undefined, "none")

-----------------------------------------------------------------------------
(* handleRequestError, client.ts:587-698, up to its next suspension point.  *)
(* Outcome "wait": the handler decided to retry and sleeps; its frame is    *)
(* pushed on the stack.  Outcome "reject": the axiosInstance.request call   *)
(* whose interceptor this is rejects with the classified error; if that     *)
(* call was the retry of a suspended handler (client.ts:614) the catch at   *)
(* client.ts:616-618 re-enters handleRequestError with retryAttempt + 1.    *)
(* log collects every shouldRetryRequest evaluation of the step.            *)

RECURSIVE handleRequestError(_, _, _, _, _)
handleRequestError(error, retryAttempt, stk, cfg, log) ==
    LET shouldRetry == shouldRetryRequest(error, retryAttempt, cfg)
        thrown == IF shouldRetry THEN NoError ELSE classifyError(error, retryAttempt, cfg)
        log2 == Append(log, [error |-> error, attempt |-> retryAttempt,
                             thrown |-> thrown, retry |-> shouldRetry])
    IN IF shouldRetry
       THEN [stack    |-> Append(stk, retryAttempt),
             waitTime |-> computeWaitTime(error, retryAttempt, cfg),
             kind     |-> "wait",
             config   |-> IF error.config = "none" THEN "empty" ELSE error.config,
             error    |-> NoError,
             log      |-> log2]
       ELSE IF stk = <<>>
       THEN [stack    |-> <<>>,
             waitTime |-> 0,
             kind     |-> "reject",
             config   |-> "none",
             error    |-> thrown,
             log      |-> log2]
       ELSE handleRequestError(ThrownError(thrown), stk[Len(stk)] + 1,
                               SubSeq(stk, 1, Len(stk) - 1), cfg, log2)

-----------------------------------------------------------------------------
(* Transport outcomes *)

Statuses == {400, 401, 404, 429, 500}
ErrorBodies == {"message", "nomessage", "null"}
RetryAfterValues == {<<>>, <<0>>, <<2>>, <<NonDigit>>}

Outcome(kind, status, body, retryAfter, config) ==
    [kind |-> kind, status |-> status, body |-> body, retryAfter |-> retryAfter,
     config |-> config]

\* Retry-After accompanies the statuses servers send it with (429 and 5xx)
Outcomes(config) ==
    {Outcome("ok", 200, "data", <<>>, config)}
    \cup {Outcome("resp", st, b, <<>>, config) : st \in Statuses, b \in ErrorBodies}
    \cup {Outcome("resp", st, "message", h, config) :
             st \in {429, 500}, h \in RetryAfterValues \ {<<>>}}
    \cup {Outcome("noresp", 0, "none", <<>>, config)}
    \cup {Outcome("setup", 0, "none", <<>>, c) : c \in {config, "none"}}

NoOutcome == Outcome("none", 0, "none", <<>>, "none")

\* the outcome counts as retryable in the sense of retryStatusCodes / no response
RetryableOutcome(o, cfg) ==
    \/ o.kind \in {"noresp", "setup"}
    \/ o.kind = "resp" /\ o.status \in cfg.retryStatusCodes

-----------------------------------------------------------------------------
(* Retry policies the client is constructed with (client.ts:250-252) *)

\* <<initialDelay, backoffFactor, maxDelay>>
DelayPolicies == {<<100, 2, 200>>, <<100, 2, 5000>>, <<3000, 1, 5000>>, <<0, 2, 200>>}

RetryConfigs ==
    {[maxRetries |-> m, initialDelay |-> d[1], backoffFactor |-> d[2], maxDelay |-> d[3],
      retryStatusCodes |-> c, retryCondition |-> p] :
        m \in 0..MaxRetriesBound, d \in DelayPolicies,
        c \in {{}, {429, 500}}, p \in {"none", "on404", "always"}}

NoFailure == [status |-> 0, hint |-> 0]

-----------------------------------------------------------------------------
(* Validation and composition done by request, query and rawQuery before the *)
(* first dispatch                                                           *)

BinaryFamily == {"image", "audio", "video", "binary"}

\* a locally raised error: new ValidationError(message), new AuthenticationError(message)
LocalError(kind, statusCode, message) ==
    TypedError(kind, statusCode, message, Undefined, Undefined, Undefined, "none")

AbsentPluggrid == [present |-> FALSE, id |-> "", customInstructions |-> "undef"]

NoWire == [method |-> "none", endpoint |-> "none", format |-> "none", prompt |-> "none",
           pluggrid |-> AbsentPluggrid, inputEncoding |-> "none", outputEncoding |-> "none",
           model |-> "none", search |-> {}]

Composed(w) == [wire |-> w, error |-> NoError, ok |-> TRUE]
Failed(error) == [wire |-> NoWire, error |-> error, ok |-> FALSE]

promptRequired_nullOnly(prompt) == prompt = "null"

\* !prompt (client.ts:340, client.ts:467): null, undefined and '' are falsy
promptRequired(prompt) == prompt \in {"empty", "null"}

\* utils.ts:42-65
validateParams(params) ==
    IF params.bag = "nonobject" THEN "Parameters must be an object"
    ELSE IF params.query \notin {"undef", "null"} /\ params.query = "nonstring"
    THEN "Query parameter must be a string"
    ELSE IF params.query = "empty" THEN "Query parameter cannot be empty"
    ELSE IF params.pluggrid \notin {"undef", "null"} /\ params.pluggrid = "nonobject"
    THEN "Pluggrid parameter must be an object"
    ELSE "ok"

\* utils.ts:14-35: the keys that reach the query string
buildUrl(endpoint, params) ==
    IF params.bag = "absent" THEN [search |-> {}, path |-> endpoint]
    ELSE [search |-> {k \in {"query", "pluggrid", "inputEncoding", "outputEncoding"} :
                         params[k] \notin {"undef", "null"}},
          path |-> endpoint]

request_noCredentialCheck(token, config) ==
    IF config.params.bag # "absent" /\ validateParams(config.params) # "ok"
    THEN Failed(LocalError("Validation", 400, validateParams(config.params)))
    ELSE LET url == buildUrl(config.endpoint, config.params) IN
         Composed([config.wire EXCEPT !.method = config.method,
                                      !.endpoint = url.path, !.search = url.search])

\* client.ts:293-309: the checks request makes before it dispatches
request(token, config) ==
    IF token = "null"
    THEN Failed(LocalError("Authentication", 401,
                  "API token not set. Please set a token before making requests."))
    ELSE IF config.params.bag # "absent" /\ validateParams(config.params) # "ok"
    THEN Failed(LocalError("Validation", 400, validateParams(config.params)))
    ELSE LET url == buildUrl(config.endpoint, config.params) IN
         Composed([config.wire EXCEPT !.method = config.method,
                                      !.endpoint = url.path, !.search = url.search])

NoParams == [pluggrid |-> "undef", inputEncoding |-> "undef", outputEncoding |-> "undef",
             bag |-> "absent", query |-> "undef"]

processPrompt_anyEncoding(prompt, inputEncoding, opts) ==
    IF prompt \notin {"text", "empty"}
    THEN IF prompt # "bytes"
         THEN Failed(LocalError("Validation", 400,
                       "Prompt must be a string, Buffer, or ArrayBuffer"))
         ELSE IF opts.attachments # "undef" \/ opts.mimeType # "undef"
         THEN IF opts.attachments = "invalid"
              THEN Failed(LocalError("Validation", 400,
                            "Invalid attachment data format for attachment"))
              ELSE Composed([NoWire EXCEPT !.format = "multipart", !.prompt = "file"])
         ELSE Composed([NoWire EXCEPT !.format = "json", !.prompt = "dataURI"])
    ELSE Composed([NoWire EXCEPT !.format = "json", !.prompt = prompt])

\* client.ts:357-381 and client.ts:483-507: the prompt as it goes on the wire
processPrompt(prompt, inputEncoding, opts) ==
    IF prompt \notin {"text", "empty"}   \* typeof prompt !== 'string'
    THEN IF prompt # "bytes"
         THEN Failed(LocalError("Validation", 400,
                       "Prompt must be a string, Buffer, or ArrayBuffer"))
         ELSE IF inputEncoding \in BinaryFamily
         THEN IF opts.attachments # "undef" \/ opts.mimeType # "undef"
              THEN \* createFormData, client.ts:143-186
                   IF opts.attachments = "invalid"
                   THEN Failed(LocalError("Validation", 400,
                                 "Invalid attachment data format for attachment"))
                   ELSE Composed([NoWire EXCEPT !.format = "multipart", !.prompt = "file"])
              ELSE \* encodeInput, client.ts:68-89
                   Composed([NoWire EXCEPT !.format = "json", !.prompt = "dataURI"])
         ELSE Failed(LocalError("Validation", 400,
                       "Cannot use binary data with inputEncoding"))
    ELSE Composed([NoWire EXCEPT !.format = "json", !.prompt = prompt])

composePluggrid_freshConfig(pluggrId, customInstructions) ==
    LET base == IF pluggrId.type = "undef" THEN AbsentPluggrid
                ELSE [present |-> TRUE, id |-> pluggrId.id,
                      customInstructions |-> pluggrId.customInstructions]
    IN IF customInstructions = "undef" THEN base
       ELSE [present |-> TRUE, id |-> "", customInstructions |-> customInstructions]

\* client.ts:388-403: the pluggrid attached to the request
composePluggrid(pluggrId, customInstructions) ==
    LET base == IF pluggrId.type = "undef" THEN AbsentPluggrid
                ELSE [present |-> TRUE, id |-> pluggrId.id,
                      customInstructions |-> pluggrId.customInstructions]
    IN IF customInstructions = "undef" THEN base
       ELSE IF ~base.present
       THEN [present |-> TRUE, id |-> "", customInstructions |-> customInstructions]
       ELSE [base EXCEPT !.customInstructions = customInstructions]

\* an option the call leaves out, or passes with the value undefined
Missing == {"undef", "undefinedValue"}

\* {...defaults, ...params} (client.ts:345-350): a key of params overrides the
\* default even when its value is undefined
Merged(dfltValue, value) == IF value = "undef" THEN dfltValue ELSE value

\* a value || fallback (client.ts:353, 441, 476, 477)
OrDefault(value, fallback) == IF value \in Missing THEN fallback ELSE value

\* a field of the body: JSON.stringify drops a key whose value is undefined
\* (client.ts:424-427), the form data gets String(value) (client.ts:411-419)
BodyField(value, format) ==
    IF value # "undefinedValue" THEN value
    ELSE IF format = "multipart" THEN "undefined" ELSE "undef"

\* the encoding query and rawQuery decode the result with (client.ts:441, 477)
outputEncodingOf(params, dflt) ==
    OrDefault(Merged(dflt.outputEncoding, params.outputEncoding), dflt.outputEncoding)

\* client.ts:339-436: what query does before it calls request
queryCompose(a, dflt) ==
    IF promptRequired(a.prompt)
    THEN Failed(LocalError("Validation", 400, "Prompt is required"))
    ELSE LET queryParams == [inputEncoding |->
                                 Merged(dflt.inputEncoding, a.params.inputEncoding),
                             outputEncoding |->
                                 Merged(dflt.outputEncoding, a.params.outputEncoding),
                             model |-> Merged(dflt.model, a.params.model)]
             inputEncoding == OrDefault(queryParams.inputEncoding, dflt.inputEncoding)
             p == processPrompt(a.prompt, inputEncoding, a.params)
         IN IF ~p.ok THEN p
            ELSE Composed([p.wire EXCEPT
                    !.method = "POST", !.endpoint = "/query",
                    !.pluggrid = composePluggrid(a.pluggrId, a.customInstructions),
                    !.inputEncoding = BodyField(queryParams.inputEncoding, p.wire.format),
                    !.outputEncoding = BodyField(queryParams.outputEncoding, p.wire.format),
                    !.model = BodyField(queryParams.model, p.wire.format)])

rawQueryCompose_modelOptional(a, dflt) ==
    IF promptRequired(a.prompt)
    THEN Failed(LocalError("Validation", 400, "Prompt is required"))
    ELSE LET inputEncoding == OrDefault(a.params.inputEncoding, dflt.inputEncoding)
             outputEncoding == OrDefault(a.params.outputEncoding, dflt.outputEncoding)
             p == processPrompt(a.prompt, inputEncoding, a.params)
         IN IF ~p.ok THEN p
            ELSE Composed([p.wire EXCEPT
                    !.method = "POST", !.endpoint = "/ai/query",
                    !.inputEncoding = inputEncoding, !.outputEncoding = outputEncoding,
                    !.model = a.params.model])

\* client.ts:466-563: what rawQuery does before it calls request
rawQueryCompose(a, dflt) ==
    IF promptRequired(a.prompt)
    THEN Failed(LocalError("Validation", 400, "Prompt is required"))
    ELSE IF a.params.model \in Missing
    THEN Failed(LocalError("Validation", 400, "Model is required for raw queries"))
    ELSE LET inputEncoding == OrDefault(a.params.inputEncoding, dflt.inputEncoding)
             outputEncoding == OrDefault(a.params.outputEncoding, dflt.outputEncoding)
             p == processPrompt(a.prompt, inputEncoding, a.params)
         IN IF ~p.ok THEN p
            ELSE Composed([p.wire EXCEPT
                    !.method = "POST", !.endpoint = "/ai/query",
                    !.inputEncoding = inputEncoding, !.outputEncoding = outputEncoding,
                    !.model = a.params.model])

\* client.ts:195-228
processOutputEncoding(data, encoding) ==
    IF encoding = "json"
    THEN CASE data = "object"   -> [ok |-> TRUE, value |-> "object"]
           [] data = "jsonText" -> [ok |-> TRUE, value |-> "object"]
           [] data = "text"     -> [ok |-> FALSE, value |-> "Failed to parse response as JSON"]
           [] OTHER             -> [ok |-> TRUE, value |-> data]
    ELSE [ok |-> TRUE, value |-> data]

Success(o, n, value) ==
    [kind |-> "ok", message |-> "", statusCode |-> o.status, attempt |-> Undefined,
     maxAttempts |-> Undefined, after |-> Undefined, original |-> "none",
     value |-> value, dispatch |-> n]

finishCall_noEnvelopeCheck(api, o, n, outputEncoding) ==
    IF api = "request" THEN Success(o, n, o.body)
    ELSE IF o.body \in {"nodata", "data"} THEN Success(o, n, "none")
    ELSE LET d == processOutputEncoding(o.body, outputEncoding) IN
         IF d.ok THEN Success(o, n, d.value)
         ELSE LocalError("Validation", 400, d.value)

\* what the caller gets from a successful dispatch: client.ts:313-318 for request,
\* client.ts:438-453 and client.ts:565-579 for query and rawQuery
finishCall(api, o, n, outputEncoding) ==
    IF api = "request" THEN Success(o, n, o.body)
    ELSE IF o.body = "nodata"
    THEN TypedError("Api", 0, "Invalid response received from the server",
                    Undefined, Undefined, Undefined, "none")
    ELSE IF o.body = "data" THEN Success(o, n, "none")
    ELSE LET d == processOutputEncoding(o.body, outputEncoding) IN
         IF d.ok THEN Success(o, n, d.value)
         ELSE LocalError("Validation", 400, d.value)

-----------------------------------------------------------------------------
(* The Authorization header.  The constructor passes it in the headers of     *)
(* axios.create (client.ts:256-260), which become entries of                  *)
(* defaults.headers itself; setToken and clearToken write and delete          *)
(* defaults.headers.common['Authorization'] (client.ts:277, 285).  When a     *)
(* request is dispatched the transport merges defaults.headers.common under   *)
(* the entries of defaults.headers and of the request's own config.           *)

ConstructorHeaders(token) ==
    [own |-> IF token = "null" THEN "none" ELSE token, common |-> "none"]

\* the Authorization header of a request dispatched with no headers of its own
Authorization(h) == IF h.own # "none" THEN h.own ELSE h.common

-----------------------------------------------------------------------------
(* One of several logical calls issued on the same client: the fields its    *)
(* own chain of handleRequestError invocations holds (client.ts:587-620)      *)

Calls == {1, 2}

IdlePeer ==
    [pc |-> "idle", stack |-> <<>>, waitTime |-> 0, dispatches |-> 0,
     result |-> NoError, history |-> <<>>]

NoPeers == [c \in Calls |-> IdlePeer]

\* client.ts:311
PeerDispatch(p) == [p EXCEPT !.pc = "inflight", !.dispatches = 1]

InterceptorStack_shared(ps, c) == ps[1].stack \o ps[2].stack

\* the suspended handlers the failure of call c's dispatch unwinds through:
\* those awaiting that dispatch at client.ts:614
InterceptorStack(ps, c) == ps[c].stack

\* the transport settles the dispatch of the call; stk are its suspended handlers
PeerRespond(p, stk, o, cfg) ==
    IF o.kind = "ok"
    THEN [p EXCEPT !.pc = "resolved", !.stack = <<>>,
                   !.result = Success(o, p.dispatches, o.body),
                   !.history = Append(@, o)]
    ELSE LET h == handleRequestError(TransportError(o), 0, stk, cfg, <<>>) IN
         [p EXCEPT !.pc = IF h.kind = "wait" THEN "waiting" ELSE "rejected",
                   !.stack = h.stack,
                   !.waitTime = IF h.kind = "wait" THEN h.waitTime ELSE @,
                   !.result = h.error,
                   !.history = Append(@, o)]

\* client.ts:608-614
PeerRetry(p) == [p EXCEPT !.pc = "inflight", !.dispatches = @ + 1]

-----------------------------------------------------------------------------
(* The client and its operations *)

NoCall == [api |-> "none"]

Init ==
    /\ apiToken \in {"null", "tok"}
    /\ retryConfig \in RetryConfigs
    /\ defaults = [inputEncoding |-> "text", outputEncoding |-> "text", model |-> "undef"]
    /\ call = NoCall
    /\ wire = NoWire
    /\ pc = "idle"
    /\ stack = <<>>
    /\ inflight = "none"
    /\ waitTime = 0
    /\ dispatches = 0
    /\ lastOutcome = NoOutcome
    /\ retryableRun = TRUE
    /\ firstFailure = NoFailure
    /\ decision = <<>>
    /\ result = NoError
    /\ waits = 0
    /\ outstanding = 0
    /\ headers = ConstructorHeaders(apiToken)
    /\ sent = <<>>
    /\ peers = NoPeers

\* the call either fails before any dispatch or makes its first dispatch (client.ts:311)
Enter(c) ==
    /\ IF c.ok
       THEN /\ pc' = "inflight"
            /\ wire' = c.wire
            /\ inflight' = "original"
            /\ dispatches' = 1
            /\ outstanding' = 1
            /\ sent' = <<Authorization(headers)>>
            /\ UNCHANGED result
       ELSE /\ pc' = "rejected"
            /\ result' = c.error
            /\ UNCHANGED <<wire, inflight, dispatches, outstanding, sent>>
    /\ UNCHANGED <<apiToken, retryConfig, defaults, stack, waitTime, lastOutcome,
                   retryableRun, firstFailure, decision, waits, headers, peers>>

\* client.ts:293-323
Request(config) ==
    /\ pc = "idle"
    /\ call' = [config |-> config, token |-> apiToken, api |-> "request"]
    /\ Enter(request(apiToken, config))

RequestConfig(method, endpoint, params, wire0) ==
    [wire |-> wire0, method |-> method, endpoint |-> endpoint, params |-> params]

Query_credentialFirst(a) ==
    /\ pc = "idle"
    /\ LET c == queryCompose(a, defaults) IN
       /\ call' = [token |-> apiToken, api |-> "query", args |-> a,
                   pluggrIdAfter |->
                      IF c.ok /\ a.pluggrId.type = "object" /\ a.customInstructions # "undef"
                      THEN [a.pluggrId EXCEPT !.customInstructions = a.customInstructions]
                      ELSE a.pluggrId]
       /\ IF c.ok \/ apiToken = "null"
          THEN Enter(request(apiToken, RequestConfig("POST", "/query", NoParams, c.wire)))
          ELSE Enter(c)

\* client.ts:333-454
Query(a) ==
    /\ pc = "idle"
    /\ LET c == queryCompose(a, defaults) IN
       /\ call' = [token |-> apiToken, api |-> "query", args |-> a,
                   pluggrIdAfter |->
                      IF c.ok /\ a.pluggrId.type = "object" /\ a.customInstructions # "undef"
                      THEN [a.pluggrId EXCEPT !.customInstructions = a.customInstructions]
                      ELSE a.pluggrId]
       /\ IF c.ok
          THEN Enter(request(apiToken, RequestConfig("POST", c.wire.endpoint, NoParams, c.wire)))
          ELSE Enter(c)

\* client.ts:462-580
RawQuery(a) ==
    /\ pc = "idle"
    /\ LET c == rawQueryCompose(a, defaults) IN
       /\ call' = [token |-> apiToken, api |-> "rawQuery", args |-> a,
                   pluggrIdAfter |-> a.pluggrId]
       /\ IF c.ok
          THEN Enter(request(apiToken, RequestConfig("POST", c.wire.endpoint, NoParams, c.wire)))
          ELSE Enter(c)

\* the transport settles the dispatch in flight; the response interceptors run
Respond(o) ==
    /\ pc = "inflight"
    /\ lastOutcome' = o
    /\ retryableRun' = (retryableRun /\ (o.kind = "ok" \/ RetryableOutcome(o, retryConfig)))
    /\ firstFailure' =
          IF dispatches = 1 /\ o.kind = "resp" /\ o.status = 429
          THEN [status |-> 429, hint |-> retryAfterMs(TransportError(o))]
          ELSE firstFailure
    /\ IF o.kind = "ok"
       THEN \* every suspended handler returns the response (client.ts:615)
            LET r == finishCall(call.api, o, dispatches,
                                IF call.api = "request" THEN "none"
                                ELSE outputEncodingOf(call.args.params, defaults)) IN
            /\ pc' = IF r.kind = "ok" THEN "resolved" ELSE "rejected"
            /\ result' = r
            /\ stack' = <<>>
            /\ inflight' = "none"
            /\ UNCHANGED <<waitTime, decision>>
       ELSE LET h == handleRequestError(TransportError(o), 0, stack, retryConfig, <<>>) IN
            /\ decision' = h.log
            /\ stack' = h.stack
            /\ IF h.kind = "wait"
               THEN /\ pc' = "waiting"
                    /\ waitTime' = h.waitTime
                    /\ inflight' = h.config
                    /\ UNCHANGED result
               ELSE /\ pc' = "rejected"
                    /\ result' = h.error
                    /\ inflight' = "none"
                    /\ UNCHANGED waitTime
    /\ outstanding' = outstanding - 1
    /\ UNCHANGED <<apiToken, retryConfig, defaults, call, wire, dispatches,
                   waits, headers, sent, peers>>

\* the setTimeout of client.ts:608 fires; the retry is dispatched (client.ts:614)
RetryDispatch_eager ==
    /\ pc \in {"waiting", "inflight"}
    /\ dispatches < MaxDispatch
    /\ pc' = "inflight"
    /\ dispatches' = dispatches + 1
    /\ waits' = IF pc = "waiting" THEN waits + 1 ELSE waits
    /\ outstanding' = outstanding + 1
    /\ sent' = Append(sent, sent[Len(sent)])
    /\ UNCHANGED <<apiToken, retryConfig, defaults, call, wire, stack, inflight, waitTime,
                   lastOutcome, retryableRun, firstFailure, decision, result, headers,
                   peers>>

\* the setTimeout of client.ts:608 fires; the retry is dispatched (client.ts:614).
\* error.config, when there is one, is the config the failed dispatch was sent
\* with, headers included; without one the request is built from the defaults.
RetryDispatch ==
    /\ pc = "waiting"
    /\ dispatches < MaxDispatch
    /\ pc' = "inflight"
    /\ dispatches' = dispatches + 1
    /\ waits' = waits + 1
    /\ outstanding' = outstanding + 1
    /\ sent' = Append(sent, IF decision[Len(decision)].error.config = "none"
                            THEN Authorization(headers)
                            ELSE sent[Len(sent)])
    /\ UNCHANGED <<apiToken, retryConfig, defaults, call, wire, stack, inflight, waitTime,
                   lastOutcome, retryableRun, firstFailure, decision, result, headers,
                   peers>>

\* client.ts:275-278
SetToken(token) ==
    /\ apiToken' = token
    /\ headers' = [headers EXCEPT !.common = token]
    /\ UNCHANGED <<retryConfig, defaults, call, wire, pc, stack, inflight, waitTime,
                   dispatches, lastOutcome, retryableRun, firstFailure, decision, result,
                   waits, outstanding, sent, peers>>

\* client.ts:283-286
ClearToken ==
    /\ apiToken' = "null"
    /\ headers' = [headers EXCEPT !.common = "none"]
    /\ UNCHANGED <<retryConfig, defaults, call, wire, pc, stack, inflight, waitTime,
                   dispatches, lastOutcome, retryableRun, firstFailure, decision, result,
                   waits, outstanding, sent, peers>>

PlainRequest == RequestConfig("GET", "/test", NoParams, NoWire)

Next ==
    \/ Request(PlainRequest)
    \/ \E o \in Outcomes(inflight) : Respond(o)
    \/ RetryDispatch

Spec == Init /\ [][Next]_vars

-----------------------------------------------------------------------------
(* The facade: request, query and rawQuery over the caller's inputs, with the *)
(* default retry policy and a transport that answers, fails or times out     *)

FacadeRetryConfigs == {[DEFAULT_RETRY_CONFIG EXCEPT !.maxRetries = m] : m \in {0, 1}}

\* shapes of the params bag handed to request:
\* <<bag, query, pluggrid, inputEncoding, outputEncoding>>; the pluggrid is
\* absent, an object with an id, not an object, or an object without id
ParamBags ==
    {<<"absent", "undef", "undef", "undef", "undef">>,
     <<"nonobject", "undef", "undef", "undef", "undef">>}
    \cup ({"object"} \X {"undef", "text", "empty", "nonstring"}
                     \X {"undef", "object", "nonobject", "noid"}
                     \X {"undef", "text", "bogus"} \X {"undef", "bogus"})

Params(t) ==
    [pluggrid |-> t[3], inputEncoding |-> t[4], outputEncoding |-> t[5],
     bag |-> t[1], query |-> t[2]]

\* the pluggrId argument: absent, a bare identifier, a configuration object,
\* a configuration object with no id
PluggrIdTypes == {"undef", "string", "object", "noid"}

PluggrId(shape) ==
    [id |-> CASE shape = "string" -> "p1" [] shape = "object" -> "p2"
              [] shape = "noid" -> "undef" [] OTHER -> "",
     customInstructions |-> "undef",
     type |-> IF shape = "noid" THEN "object" ELSE shape]

Prompts == {"empty", "null", "text", "bytes", "other"}

\* the enumerated encodings (InputEncoding and OutputEncoding of the types)
InputEncodings == {"text", "json", "image", "audio", "video", "binary"}
OutputEncodings == {"text", "json", "audio", "image", "markdown", "html", "xml"}

\* <<inputEncoding, outputEncoding, model, attachments, mimeType>>; "bogus" is
\* a token outside the enumerated sets
CallOptions(models) ==
    {"undef", "text", "image", "bogus"} \X {"undef", "json", "bogus"} \X models
        \X {"undef", "valid", "invalid"} \X {"undef", "image/png"}

CallParams(t) ==
    [inputEncoding |-> t[1], outputEncoding |-> t[2], model |-> t[3],
     attachments |-> t[4], mimeType |-> t[5]]

QueryArgs(prompt, pluggrIdType, customInstructions, options) ==
    [customInstructions |-> customInstructions, prompt |-> prompt,
     params |-> CallParams(options), pluggrId |-> PluggrId(pluggrIdType)]

RawQueryArgs(prompt, options) ==
    [customInstructions |-> "undef", prompt |-> prompt,
     params |-> CallParams(options), pluggrId |-> PluggrId("undef")]

FacadeOutcomes(config) ==
    {Outcome("ok", 200, b, <<>>, config) :
        b \in {"nodata", "data", "object", "jsonText", "text"}}
    \cup {Outcome("resp", st, "message", <<>>, config) : st \in {401, 500}}
    \cup {Outcome("noresp", 0, "none", <<>>, config)}

FacadeInit ==
    /\ apiToken \in {"null", "tok"}
    /\ retryConfig \in FacadeRetryConfigs
    /\ defaults \in {[inputEncoding |-> ie, outputEncoding |-> "text", model |-> "undef"] :
                        ie \in {"text", "image"}}
    /\ call = NoCall
    /\ wire = NoWire
    /\ pc = "idle"
    /\ stack = <<>>
    /\ inflight = "none"
    /\ waitTime = 0
    /\ dispatches = 0
    /\ lastOutcome = NoOutcome
    /\ retryableRun = TRUE
    /\ firstFailure = NoFailure
    /\ decision = <<>>
    /\ result = NoError
    /\ waits = 0
    /\ outstanding = 0
    /\ headers = ConstructorHeaders(apiToken)
    /\ sent = <<>>
    /\ peers = NoPeers

FacadeNext ==
    \/ \E t \in ParamBags : Request(RequestConfig("GET", "/test", Params(t), NoWire))
    \/ \E prompt \in Prompts, g \in PluggrIdTypes, ci \in {"undef", "ci"},
          options \in CallOptions({"undef"}) : Query(QueryArgs(prompt, g, ci, options))
    \/ \E prompt \in Prompts, options \in CallOptions({"undef", "m1"}) :
          RawQuery(RawQueryArgs(prompt, options))
    \/ \E o \in FacadeOutcomes(inflight) : Respond(o)
    \/ RetryDispatch

FacadeSpec == FacadeInit /\ [][FacadeNext]_vars

-----------------------------------------------------------------------------
(* Defaults and overrides: clients constructed with and without default      *)
(* model and encodings, and query called with options that are left out,     *)
(* passed as undefined, or given                                              *)

\* client.ts:247-249: the defaults the constructor keeps
ConstructorDefaults(defaultModel, defaultInputEncoding, defaultOutputEncoding) ==
    [inputEncoding |-> IF defaultInputEncoding = "undef" THEN "text"
                       ELSE defaultInputEncoding,
     outputEncoding |-> IF defaultOutputEncoding = "undef" THEN "text"
                        ELSE defaultOutputEncoding,
     model |-> defaultModel]

ComposeOptions ==
    {"undef", "undefinedValue", "text", "json", "image", "audio"}
        \X {"undef", "undefinedValue", "json"}
        \X {"undef", "undefinedValue", "m1"} \X {"undef", "valid"} \X {"undef"}

ComposeOutcomes(config) ==
    {Outcome("ok", 200, b, <<>>, config) : b \in {"object", "jsonText", "text"}}
    \cup {Outcome("resp", 500, "message", <<>>, config)}

ComposeInit ==
    /\ apiToken = "tok"
    /\ retryConfig = [DEFAULT_RETRY_CONFIG EXCEPT !.maxRetries = 0]
    /\ defaults \in {ConstructorDefaults(m, ie, oe) :
                        m \in {"undef", "m0"}, ie \in {"undef", "json", "image"},
                        oe \in {"undef", "json"}}
    /\ call = NoCall
    /\ wire = NoWire
    /\ pc = "idle"
    /\ stack = <<>>
    /\ inflight = "none"
    /\ waitTime = 0
    /\ dispatches = 0
    /\ lastOutcome = NoOutcome
    /\ retryableRun = TRUE
    /\ firstFailure = NoFailure
    /\ decision = <<>>
    /\ result = NoError
    /\ waits = 0
    /\ outstanding = 0
    /\ headers = ConstructorHeaders(apiToken)
    /\ sent = <<>>
    /\ peers = NoPeers

ComposeNext ==
    \/ \E prompt \in {"text", "bytes", "other"}, options \in ComposeOptions :
          Query(QueryArgs(prompt, "undef", "undef", options))
    \/ \E prompt \in {"text", "bytes", "other"}, options \in ComposeOptions :
          RawQuery(RawQueryArgs(prompt, options))
    \/ \E o \in ComposeOutcomes(inflight) : Respond(o)

ComposeSpec == ComposeInit /\ [][ComposeNext]_vars

-----------------------------------------------------------------------------
(* The exported codec of the utilities: encodeInput and processOutputEncoding *)
(* over values and their JSON texts (unnamed/part_000:642-689, 761-855)       *)

JsValue(type, value) == [type |-> type, value |-> value]

\* contents of the strings tried: plain text and texts that are themselves JSON
StringContents == {"hello", "1", "true", "null", "[1]"}

\* values JSON.stringify serializes, each with its JSON text as value (for a
\* string: its contents)
JsonValues ==
    {JsValue("object", "{\"a\":1}"), JsValue("array", "[1]"), JsValue("number", "1"),
     JsValue("number", "0"), JsValue("boolean", "true"), JsValue("null", "null")}
    \cup {JsValue("string", c) : c \in StringContents}

BufferValue == JsValue("buffer", "bytes")

JSONstringify(x) == IF x.type = "string" THEN "\"" \o x.value \o "\"" ELSE x.value

\* JSON.parse: the value a text denotes; a text that is no JSON throws
JSONparse(text) ==
    IF \E x \in JsonValues : JSONstringify(x) = text
    THEN [ok |-> TRUE, value |-> CHOOSE x \in JsonValues : JSONstringify(x) = text]
    ELSE [ok |-> FALSE, value |-> JsValue("SyntaxError", text)]

\* String(data)
StringOf(x) ==
    CASE x.type = "object" -> "[object Object]"
      [] x.type = "array"  -> "1"
      [] x.type = "buffer" -> x.value
      [] OTHER             -> x.value

\* unnamed/part_000:642-685 (utils encodeInput)
encodeInput(data, encoding) ==
    IF encoding = "text" THEN [ok |-> TRUE, value |-> JsValue("string", StringOf(data))]
    ELSE IF encoding = "json"
    THEN [ok |-> TRUE,
          value |-> JsValue("string", IF data.type = "string" THEN data.value
                                      ELSE JSONstringify(data))]
    ELSE IF encoding \in BinaryFamily
    THEN IF data.type = "buffer"
         THEN [ok |-> TRUE, value |-> JsValue("string", "Ynl0ZXM=")]
         ELSE [ok |-> FALSE, value |-> JsValue("Error", "Invalid data type for encoding")]
    ELSE [ok |-> FALSE, value |-> JsValue("Error", "Unsupported encoding")]

\* unnamed/part_000:761-778
processJsonOutput(data) ==
    IF data.type \in {"object", "array", "buffer"} THEN [ok |-> TRUE, value |-> data]
    ELSE IF data.type = "string"
    THEN LET parsed == JSONparse(data.value) IN
         IF parsed.ok THEN parsed
         ELSE [ok |-> FALSE,
               value |-> JsValue("ValidationError", "Failed to parse response as JSON")]
    ELSE [ok |-> TRUE, value |-> data]

\* the formatOptions tried: none, {markdown: {toc: true}}, {html: {className}},
\* {html: {fullDocument: true}} and {html: {fullDocument: true, className}}
FormatOptions == {"undef", "toc", "className", "fullDocument", "fullDocumentClass"}

\* result values a server can send: the JSON values, and strings holding a
\* markdown heading, an HTML fragment and a whole HTML document
ResultValues ==
    JsonValues \cup {JsValue("string", "# T"), JsValue("string", "<p>x</p>"),
                     JsValue("string", "<html></html>")}

\* unnamed/part_000:711-753 (extractHeadings, then generateToc at level 1)
generateToc(markdown) == IF markdown = "# T" THEN "- [T](#t)\n" ELSE ""

\* unnamed/part_000:785-796
processMarkdownOutput(data, options) ==
    LET markdown == StringOf(data) IN
    IF options = "toc" THEN generateToc(markdown) \o "\n\n" \o markdown ELSE markdown

\* unnamed/part_000:804-826
processHtmlOutput(data, options) ==
    LET html == StringOf(data)
        hasHtmlTag == html = "<html></html>"
    IN IF options \in {"fullDocument", "fullDocumentClass"} /\ ~hasHtmlTag
       THEN "<!DOCTYPE html><html><head><title>Generated Content</title></head><body"
            \o (IF options = "fullDocumentClass" THEN " class=\"c\"" ELSE "")
            \o ">" \o html \o "</body></html>"
       ELSE IF options = "className" /\ ~hasHtmlTag
       THEN "<div class=\"c\">" \o html \o "</div>"
       ELSE html

\* unnamed/part_000:835-855 (utils processOutputEncoding)
decodeOutput(data, encoding, formatOptions) ==
    CASE encoding = "json"     -> processJsonOutput(data)
      [] encoding = "markdown" ->
            [ok |-> TRUE,
             value |-> JsValue("string", processMarkdownOutput(data, formatOptions))]
      [] encoding = "html"     ->
            [ok |-> TRUE,
             value |-> JsValue("string", processHtmlOutput(data, formatOptions))]
      [] OTHER                 -> [ok |-> TRUE, value |-> JsValue("string", StringOf(data))]

\* client.ts:195-228 (the processOutputEncoding private to the client), over
\* the same values
clientProcessOutputEncoding(data, encoding, formatOptions) ==
    IF encoding = "json"
    THEN IF data.type \in {"object", "array", "buffer"} THEN [ok |-> TRUE, value |-> data]
         ELSE IF data.type = "string"
         THEN LET parsed == JSONparse(data.value) IN
              IF parsed.ok THEN parsed
              ELSE [ok |-> FALSE,
                    value |-> JsValue("ValidationError", "Failed to parse response as JSON")]
         ELSE [ok |-> TRUE, value |-> data]
    ELSE [ok |-> TRUE, value |-> data]

CodecInit ==
    /\ apiToken = "null"
    /\ retryConfig = DEFAULT_RETRY_CONFIG
    /\ defaults = ConstructorDefaults("undef", "undef", "undef")
    /\ call = NoCall
    /\ wire = NoWire
    /\ pc = "idle"
    /\ stack = <<>>
    /\ inflight = "none"
    /\ waitTime = 0
    /\ dispatches = 0
    /\ lastOutcome = NoOutcome
    /\ retryableRun = TRUE
    /\ firstFailure = NoFailure
    /\ decision = <<>>
    /\ result = NoError
    /\ waits = 0
    /\ outstanding = 0
    /\ headers = ConstructorHeaders(apiToken)
    /\ sent = <<>>
    /\ peers = NoPeers

CodecFrame ==
    UNCHANGED <<apiToken, retryConfig, defaults, wire, stack, inflight, waitTime,
                dispatches, lastOutcome, retryableRun, firstFailure, decision, waits,
                outstanding, headers, sent, peers>>

\* encodeInput(data, encoding) is called
Encode(data, encoding) ==
    /\ pc = "idle"
    /\ call' = [api |-> "encodeInput", args |-> <<data, encoding>>]
    /\ result' = encodeInput(data, encoding)
    /\ pc' = IF result'.ok THEN "encoded" ELSE "thrown"
    /\ CodecFrame

\* processOutputEncoding(encoded, encoding) is called on what encodeInput returned
Decode(encoding) ==
    /\ pc = "encoded"
    /\ call' = [api |-> "processOutputEncoding", args |-> call.args \o <<encoding>>]
    /\ result' = decodeOutput(result.value, encoding, "undef")
    /\ pc' = IF result'.ok THEN "decoded" ELSE "thrown"
    /\ CodecFrame

\* a value that `if (result.result)` takes as false
Falsy(data) == data \in {JsValue("null", "null"), JsValue("number", "0")}

\* query and rawQuery decode the result of a successful response, when it is
\* truthy (client.ts:438-446, 565-572)
DecodeResult(data, encoding, formatOptions) ==
    /\ pc = "idle"
    /\ call' = [api |-> "query", args |-> <<data, encoding, formatOptions>>]
    /\ result' = IF Falsy(data) THEN [ok |-> TRUE, value |-> data]
                 ELSE clientProcessOutputEncoding(data, encoding, formatOptions)
    /\ pc' = IF result'.ok THEN "decoded" ELSE "thrown"
    /\ CodecFrame

CodecNext ==
    \/ \E data \in JsonValues \cup {BufferValue},
          encoding \in {"text", "json", "binary", "bogus"} :
          Encode(data, encoding)
    \/ \E encoding \in {"json", "text", "markdown", "html"} : Decode(encoding)
    \/ \E data \in ResultValues,
          encoding \in {"json", "text", "markdown", "html", "xml", "bogus"},
          formatOptions \in FormatOptions :
          DecodeResult(data, encoding, formatOptions)

CodecSpec == CodecInit /\ [][CodecNext]_vars

-----------------------------------------------------------------------------
(* The credential: setToken and clearToken called at any moment, before and  *)
(* during a call                                                             *)

Tokens == {"tok", "tok2"}

CredentialRetryConfigs ==
    {[DEFAULT_RETRY_CONFIG EXCEPT !.maxRetries = m] : m \in 0..MaxRetriesBound}

CredentialOutcomes(config) ==
    {Outcome("ok", 200, "data", <<>>, config),
     Outcome("resp", 500, "message", <<>>, config),
     Outcome("resp", 400, "message", <<>>, config),
     Outcome("noresp", 0, "none", <<>>, config)}

CredentialInit ==
    /\ apiToken \in {"null", "tok"}
    /\ retryConfig \in CredentialRetryConfigs
    /\ defaults = [inputEncoding |-> "text", outputEncoding |-> "text", model |-> "undef"]
    /\ call = NoCall
    /\ wire = NoWire
    /\ pc = "idle"
    /\ stack = <<>>
    /\ inflight = "none"
    /\ waitTime = 0
    /\ dispatches = 0
    /\ lastOutcome = NoOutcome
    /\ retryableRun = TRUE
    /\ firstFailure = NoFailure
    /\ decision = <<>>
    /\ result = NoError
    /\ waits = 0
    /\ outstanding = 0
    /\ headers = ConstructorHeaders(apiToken)
    /\ sent = <<>>
    /\ peers = NoPeers

CredentialNext ==
    \/ \E token \in Tokens : SetToken(token)
    \/ ClearToken
    \/ Request(PlainRequest)
    \/ \E o \in CredentialOutcomes(inflight) : Respond(o)
    \/ RetryDispatch

CredentialSpec == CredentialInit /\ [][CredentialNext]_vars

-----------------------------------------------------------------------------
(* Two logical calls on one client, their dispatches, responses and backoff  *)
(* waits interleaved in every order                                          *)

PairRetryConfigs ==
    {[maxRetries |-> m, initialDelay |-> 100, backoffFactor |-> 2, maxDelay |-> 5000,
      retryStatusCodes |-> {429, 500}, retryCondition |-> "none"] :
        m \in 0..MaxRetriesBound}

PairOutcomes ==
    {Outcome("ok", 200, "data", <<>>, "original"),
     Outcome("resp", 429, "message", <<2>>, "original"),
     Outcome("resp", 500, "message", <<>>, "original"),
     Outcome("resp", 400, "message", <<>>, "original"),
     Outcome("noresp", 0, "none", <<>>, "original")}

PairInit ==
    /\ apiToken = "tok"
    /\ retryConfig \in PairRetryConfigs
    /\ defaults = [inputEncoding |-> "text", outputEncoding |-> "text", model |-> "undef"]
    /\ call = NoCall
    /\ wire = NoWire
    /\ pc = "idle"
    /\ stack = <<>>
    /\ inflight = "none"
    /\ waitTime = 0
    /\ dispatches = 0
    /\ lastOutcome = NoOutcome
    /\ retryableRun = TRUE
    /\ firstFailure = NoFailure
    /\ decision = <<>>
    /\ result = NoError
    /\ waits = 0
    /\ outstanding = 0
    /\ headers = ConstructorHeaders(apiToken)
    /\ sent = <<>>
    /\ peers = NoPeers

PairFrame ==
    UNCHANGED <<apiToken, retryConfig, defaults, call, wire, pc, stack, inflight, waitTime,
                dispatches, lastOutcome, retryableRun, firstFailure, decision, result,
                waits, outstanding, headers, sent>>

\* client.ts:293-311, for a request that passes the credential check
PairRequest(c) ==
    /\ peers[c].pc = "idle"
    /\ apiToken # "null"
    /\ peers' = [peers EXCEPT ![c] = PeerDispatch(@)]
    /\ PairFrame

PairRespond(c, o) ==
    /\ peers[c].pc = "inflight"
    /\ peers' = [peers EXCEPT
                    ![c] = PeerRespond(@, InterceptorStack(peers, c), o, retryConfig)]
    /\ PairFrame

PairRetry(c) ==
    /\ peers[c].pc = "waiting"
    /\ peers[c].dispatches < MaxPairDispatch
    /\ peers' = [peers EXCEPT ![c] = PeerRetry(@)]
    /\ PairFrame

PairNext ==
    \/ \E c \in Calls : PairRequest(c)
    \/ \E c \in Calls, o \in PairOutcomes : PairRespond(c, o)
    \/ \E c \in Calls : PairRetry(c)

PairSpec == PairInit /\ [][PairNext]_vars

-----------------------------------------------------------------------------
(* Properties of the retry controller *)

\* number of dispatches whose outcome has been received
Completed == IF pc = "inflight" THEN dispatches - 1 ELSE dispatches

TypedKinds == {"Api", "Authentication", "Validation", "Network", "RateLimit", "Server"}

\* Retry-After of the latest outcome is absent or starts with a digit
NumericHint == lastOutcome.retryAfter = <<>> \/ Head(lastOutcome.retryAfter) # NonDigit

\* C1: once more than maxRetries consecutive dispatches of the call have failed
\* with a retryable outcome (no response, or a status in retryStatusCodes), the
\* call has made exactly maxRetries+1 dispatches and is rejected with a typed
\* error whose retry.attempt equals maxRetries.
C1_GivesUpAfterMaxRetries ==
    (/\ retryableRun
     /\ lastOutcome.kind \in {"resp", "noresp", "setup"}
     /\ lastOutcome.body # "null"
     /\ Completed > retryConfig.maxRetries)
    => (/\ pc = "rejected"
        /\ dispatches = retryConfig.maxRetries + 1
        /\ result.kind \in TypedKinds
        /\ result.attempt = retryConfig.maxRetries)

\* C2: while the dispatches made so far all failed with a retryable outcome and
\* there are k <= maxRetries of them, the call is not rejected and goes on to
\* dispatch k+1; when dispatch k+1 succeeds the call resolves with the response
\* of that dispatch, k+1 dispatches made, no error and nothing left pending.
C2_RetryThenSuccess ==
    /\ (/\ retryableRun
        /\ lastOutcome.kind \in {"resp", "noresp", "setup"}
        /\ Completed <= retryConfig.maxRetries)
       => (/\ pc \in {"waiting", "inflight"}
           /\ result = NoError)
    /\ (retryableRun /\ lastOutcome.kind = "ok")
       => (/\ pc = "resolved"
           /\ result.kind = "ok"
           /\ result.dispatch = dispatches
           /\ stack = <<>>
           /\ inflight = "none")

C2_Witness ==
    /\ pc = "resolved"
    /\ retryableRun
    /\ dispatches = retryConfig.maxRetries + 1
    /\ dispatches >= 2
    /\ result.kind = "ok"

\* C3: the decision table of the retry policy: no retry at attempt >= maxRetries;
\* otherwise retry when there is no response; otherwise retry when the status is
\* listed; otherwise retry when a predicate is configured and accepts; else no.
C3_Table(error, attempt, cfg) ==
    CASE attempt >= cfg.maxRetries -> FALSE
      [] attempt < cfg.maxRetries /\ ~error.response -> TRUE
      [] attempt < cfg.maxRetries /\ error.response
           /\ error.status \in cfg.retryStatusCodes -> TRUE
      [] attempt < cfg.maxRetries /\ error.response
           /\ error.status \notin cfg.retryStatusCodes
           /\ cfg.retryCondition \in {"always", "on404", "never"} ->
             RetryCondition(cfg.retryCondition, error)
      [] OTHER -> FALSE

\* C3: every decision shouldRetryRequest took in the latest interceptor run, and
\* the decision it takes for every transport outcome at every attempt under the
\* client's policy, is the one of the table.
C3_ShouldRetryMatchesTable ==
    /\ \A i \in 1..Len(decision) :
          decision[i].retry = C3_Table(decision[i].error, decision[i].attempt, retryConfig)
    /\ \A o \in Outcomes("original") : \A a \in 0..MaxAttemptN :
          o.kind # "ok" =>
            shouldRetryRequest(TransportError(o), a, retryConfig)
              = C3_Table(TransportError(o), a, retryConfig)

C3_Witness ==
    /\ Len(decision) >= 2
    /\ decision[1].error.response
    /\ ~decision[1].retry
    /\ decision[2].attempt >= 1
    /\ decision[2].retry
    /\ retryConfig.retryCondition = "on404"

\* C4: the wait before the next dispatch is
\* max(min(initialDelay * backoffFactor^n, maxDelay), hint), n being the number
\* of failed dispatches of the call so far minus one and hint the Retry-After
\* of the failed response in milliseconds (0 when absent).
C4_WaitFormula ==
    (pc = "waiting" /\ NumericHint)
    => LET n == Completed - 1
           backoff == Min(retryConfig.initialDelay * Pow(retryConfig.backoffFactor, n),
                          retryConfig.maxDelay)
           hint == IF lastOutcome.retryAfter = <<>> THEN 0
                   ELSE LeadingDigits(lastOutcome.retryAfter, 0) * 1000
       IN waitTime = IF backoff >= hint THEN backoff ELSE hint

\* C5: without a Retry-After hint the delay is non-decreasing in the attempt
\* number, never exceeds maxDelay, and stays at maxDelay once it reached it;
\* the wait of a handler that retries without a hint is that delay.
C5_DelayMonotoneCapped ==
    (retryConfig.initialDelay >= 0 /\ retryConfig.backoffFactor >= 1)
    => /\ \A n \in 0..MaxAttemptN :
            /\ backoffDelay(retryConfig, n) <= backoffDelay(retryConfig, n + 1)
            /\ backoffDelay(retryConfig, n + 1) <= retryConfig.maxDelay
            /\ backoffDelay(retryConfig, n) <= retryConfig.maxDelay
            /\ backoffDelay(retryConfig, n) = retryConfig.maxDelay
                 => backoffDelay(retryConfig, n + 1) = retryConfig.maxDelay
       /\ (pc = "waiting" /\ Len(decision) >= 1
             /\ retryAfterMs(decision[Len(decision)].error) = 0)
          => /\ waitTime = backoffDelay(retryConfig, stack[Len(stack)])
             /\ waitTime <= retryConfig.maxDelay

C5_Witness ==
    /\ pc = "waiting"
    /\ stack # <<>>
    /\ stack[Len(stack)] >= 1
    /\ waitTime = retryConfig.maxDelay
    /\ backoffDelay(retryConfig, 0) < retryConfig.maxDelay

\* C6: a call whose first dispatch failed with a retryable 429 carrying
\* Retry-After: s, s*1000 above the computed backoff, waits at least s*1000 ms
\* (even above maxDelay) before its next dispatch; with maxRetries 1 it makes
\* exactly one retry dispatch, and when that succeeds the call resolves.
C6_RetryAfterHonoured ==
    (/\ firstFailure.status = 429
     /\ firstFailure.hint # NaN
     /\ firstFailure.hint > backoffDelay(retryConfig, 0)
     /\ 429 \in retryConfig.retryStatusCodes
     /\ retryConfig.maxRetries >= 1)
    => /\ (pc = "waiting" /\ dispatches = 1) => waitTime >= firstFailure.hint
       /\ retryConfig.maxRetries = 1 => dispatches <= 2
       /\ (retryConfig.maxRetries = 1 /\ dispatches = 2 /\ lastOutcome.kind = "ok")
            => (pc = "resolved" /\ result.kind = "ok")

\* C7/C8: kind and statusCode of the classification table
C8_Kind(o) ==
    CASE o.kind = "resp" /\ o.status = 401 -> "Authentication"
      [] o.kind = "resp" /\ o.status = 400 -> "Validation"
      [] o.kind = "resp" /\ o.status = 429 -> "RateLimit"
      [] o.kind = "resp" /\ o.status >= 500 -> "Server"
      [] o.kind = "resp" /\ o.status \notin {400, 401, 429} /\ o.status < 500 -> "Api"
      [] o.kind = "noresp" -> "Network"
      [] OTHER -> "Api"

C8_StatusCode(o) == IF o.kind = "resp" THEN o.status ELSE 0

\* C7: when the call ends in failure, the error the caller receives is the typed
\* classification of the outcome of the last dispatch made: its kind, its
\* statusCode, and retry.attempt = the number of retries made.
C7_LastOutcomeSurfaced ==
    (pc = "rejected" /\ dispatches >= 1 /\ lastOutcome.body # "null")
    => /\ result.kind = C8_Kind(lastOutcome)
       /\ result.statusCode = C8_StatusCode(lastOutcome)
       /\ result.attempt = dispatches - 1

\* C8: every terminal classification of a transport outcome yields the kind and
\* statusCode the table gives for that outcome, whatever the outcome is.
C8_ClassificationTotal ==
    \A i \in 1..Len(decision) :
        (~decision[i].retry /\ decision[i].error.name \in {"AxiosError", "Error"})
        => LET e == decision[i].error
               o == [kind |-> IF e.response THEN "resp"
                              ELSE IF e.request THEN "noresp" ELSE "setup",
                     status |-> e.status]
           IN /\ decision[i].thrown.kind = C8_Kind(o)
              /\ decision[i].thrown.statusCode = C8_StatusCode(o)

-----------------------------------------------------------------------------
(* Properties of the facade *)

EffectiveInputEncoding ==
    IF call.args.params.inputEncoding = "undef"
    THEN defaults.inputEncoding ELSE call.args.params.inputEncoding

\* C9: a call made while the credential is absent (request; query or rawQuery
\* with a non-empty prompt and, for rawQuery, a model) fails with an
\* Authentication error and makes no dispatch.
C9_AbsentCredentialBlocks ==
    (/\ call.api # "none"
     /\ call.token = "null"
     /\ \/ call.api = "request"
        \/ /\ call.args.prompt \notin {"empty", "null"}
           /\ call.api = "rawQuery" => call.args.params.model # "undef")
    => (pc = "rejected" /\ result.kind = "Authentication" /\ dispatches = 0)

\* C9 as amended: a call made while the credential is absent makes no dispatch;
\* it fails with an Authentication error when it is a request, or a query or
\* rawQuery whose input passes the local checks (a non-empty string prompt, or a
\* byte-backed prompt with a binary-family effective input encoding and
\* well-formed attachments; for rawQuery also a model), and with a Validation
\* error otherwise.
C9_AbsentCredentialAfterValidation ==
    (call.api # "none" /\ call.token = "null")
    => /\ pc = "rejected"
       /\ dispatches = 0
       /\ result.kind =
            IF \/ call.api = "request"
               \/ /\ \/ call.args.prompt = "text"
                     \/ /\ call.args.prompt = "bytes"
                        /\ EffectiveInputEncoding \in BinaryFamily
                        /\ \/ call.args.params.attachments = "valid"
                           \/ call.args.params.attachments = "undef"
                  /\ call.api = "rawQuery" => call.args.params.model # "undef"
            THEN "Authentication" ELSE "Validation"

C9_Witness ==
    /\ call.api = "query"
    /\ call.token = "null"
    /\ call.args.prompt = "bytes"
    /\ call.args.params.attachments = "valid"
    /\ pc = "rejected"
    /\ result.kind = "Authentication"
    /\ dispatches = 0

\* C10: query and rawQuery called with an empty-string or null prompt fail with
\* a Validation error and make no dispatch, whatever the credential, pluggrid,
\* options and retry policy are.
C10_EmptyPromptRejected ==
    (call.api \in {"query", "rawQuery"} /\ call.args.prompt \in {"empty", "null"})
    => (pc = "rejected" /\ result.kind = "Validation" /\ dispatches = 0)

C10_Witness ==
    /\ call.api = "query"
    /\ call.args.prompt = "empty"
    /\ call.token = "tok"
    /\ call.args.pluggrId.type = "object"
    /\ retryConfig.maxRetries = 1
    /\ pc = "rejected"
    /\ result.kind = "Validation"
    /\ result.message = "Prompt is required"

\* C11: query and rawQuery called with a plain string prompt while the effective
\* input encoding is binary-family (image, audio, video, binary) fail with a
\* Validation error and make no dispatch.
C11_StringPromptBinaryEncodingRejected ==
    (/\ call.api \in {"query", "rawQuery"}
     /\ call.args.prompt = "text"
     /\ EffectiveInputEncoding \in BinaryFamily)
    => (pc = "rejected" /\ result.kind = "Validation" /\ dispatches = 0)

\* the caller input alone is invalid: an encoding token outside the enumerated
\* sets, or a pluggrid configuration without an identifier
InvalidCallerInput ==
    \/ call.args.params.inputEncoding \notin InputEncodings \cup {"undef"}
    \/ call.args.params.outputEncoding \notin OutputEncodings \cup {"undef"}
    \/ call.args.pluggrId.type = "object" /\ call.args.pluggrId.id = "undef"

\* C12: query and rawQuery called with an input that is invalid by itself (an
\* input or output encoding token outside the enumerated sets, a pluggrid
\* without an identifier) fail with a Validation error and make no dispatch.
C12_InvalidInputRejectedLocally ==
    (call.api \in {"query", "rawQuery"} /\ InvalidCallerInput)
    => (pc = "rejected" /\ result.kind = "Validation" /\ dispatches = 0)

-----------------------------------------------------------------------------
(* Further properties of the retry controller *)

\* C13: when the first dispatch is answered with status 400 (a body object),
\* 400 not being in retryStatusCodes, the call makes exactly that one dispatch
\* and no wait and fails with a Validation error, statusCode 400 and
\* retry.attempt 0, whatever maxRetries, the delays and the custom predicate are.
C13_BadRequestNeverRetried ==
    (/\ dispatches = 1
     /\ lastOutcome.kind = "resp"
     /\ lastOutcome.status = 400
     /\ lastOutcome.body # "null"
     /\ 400 \notin retryConfig.retryStatusCodes)
    => (/\ pc = "rejected"
        /\ waits = 0
        /\ result.kind = "Validation"
        /\ result.statusCode = 400
        /\ result.attempt = 0)

\* C14: every retry dispatch reissues the request of the first dispatch: the
\* config composed for the call, carrying the headers of the first dispatch
\* (stated for failures that carry the config of the dispatch that failed).
C14_RetryReissuesOriginal ==
    lastOutcome.config # "none"
    => /\ inflight # "empty"
       /\ \A i \in 1..Len(sent) : sent[i] = sent[1]

\* C15: at most one dispatch of the call is in flight at any time; a dispatch
\* after the first is started only from a backoff wait, which is entered only
\* after the previous dispatch failed and shouldRetryRequest accepted, with the
\* wait time computed for that failure; consecutive dispatches are separated by
\* exactly one wait.
C15_SequentialDispatches ==
    /\ outstanding \in {0, 1}
    /\ (outstanding = 1) <=> (pc = "inflight")
    /\ dispatches >= 1 => waits = dispatches - 1
    /\ pc = "waiting" =>
          /\ lastOutcome.kind # "ok"
          /\ decision # <<>>
          /\ decision[Len(decision)].retry
          /\ waitTime = computeWaitTime(decision[Len(decision)].error,
                                        decision[Len(decision)].attempt, retryConfig)
    /\ (pc = "inflight" /\ dispatches >= 2) =>
          /\ lastOutcome.kind # "ok"
          /\ decision # <<>>
          /\ decision[Len(decision)].retry

C15_Witness ==
    /\ pc = "inflight"
    /\ dispatches = 3
    /\ waits = 2
    /\ outstanding = 1
    /\ waitTime > 0

\* what a call is left with after it received the outcomes hist, had it been
\* the only call of the client
RECURSIVE Alone(_, _)
Alone(hist, cfg) ==
    IF hist = <<>> THEN PeerDispatch(IdlePeer)
    ELSE LET prev == Alone(SubSeq(hist, 1, Len(hist) - 1), cfg)
             p == IF prev.pc = "waiting" THEN PeerRetry(prev) ELSE prev
         IN PeerRespond(p, p.stack, hist[Len(hist)], cfg)

C17_DispatchCarriesHeldCredential ==
    \A i \in 1..Len(sent) : sent[i] = call.token

\* C18: a dispatch that times out (request sent, no response) after only
\* retryable failures is retried while the retries made are fewer than
\* maxRetries, and otherwise ends the call, after maxRetries+1 dispatches, with
\* a Network error of statusCode 0.
C18_TimeoutRetriedThenNetwork ==
    (retryableRun /\ lastOutcome.kind = "noresp")
    => IF Completed <= retryConfig.maxRetries
       THEN pc \in {"waiting", "inflight"} /\ result = NoError
       ELSE /\ pc = "rejected"
            /\ dispatches = retryConfig.maxRetries + 1
            /\ result.kind = "Network"
            /\ result.statusCode = 0

\* C19: a RateLimit error built from a 429 response carries retry.after =
\* s * 1000 when the response has Retry-After: s, and no hint when it has none.
C19_RateLimitHintInMs ==
    \A i \in 1..Len(decision) :
        LET e == decision[i].error IN
        (/\ ~decision[i].retry
         /\ decision[i].thrown.kind = "RateLimit"
         /\ e.retryAfter = <<>> \/ Head(e.retryAfter) # NonDigit)
        => decision[i].thrown.after =
              IF e.retryAfter = <<>> THEN Undefined
              ELSE LeadingDigits(e.retryAfter, 0) * 1000

\* C20: every error built by classifying a transport outcome (a body object or
\* no response) carries retry.attempt = the number of retries made for the call
\* so far and retry.maxAttempts = maxRetries, hence 0 <= attempt <= maxAttempts.
C20_RetryMetadata ==
    \A i \in 1..Len(decision) :
        (/\ ~decision[i].retry
         /\ decision[i].error.name \in {"AxiosError", "Error"}
         /\ decision[i].error.body # "null")
        => /\ decision[i].thrown.attempt = dispatches - 1
           /\ decision[i].thrown.maxAttempts = retryConfig.maxRetries
           /\ 0 <= decision[i].thrown.attempt
           /\ decision[i].thrown.attempt <= decision[i].thrown.maxAttempts

-----------------------------------------------------------------------------
(* Properties of the errors, of composition and of the credential *)

\* C21: every rejection of a call is one of the typed kinds (Api,
\* Authentication, Validation, Network, RateLimit, Server); a transport failure
\* of any shape, a response with a null body included, never reaches the caller
\* as an untyped error.
C21_EveryRejectionTyped ==
    pc = "rejected" => result.kind \in TypedKinds

C23_Pluggrid(pluggrId, customInstructions) ==
    CASE pluggrId.type = "undef" /\ customInstructions = "undef" -> AbsentPluggrid
      [] pluggrId.type = "undef" /\ customInstructions # "undef" ->
            [present |-> TRUE, id |-> "", customInstructions |-> customInstructions]
      [] pluggrId.type # "undef" /\ customInstructions = "undef" ->
            [present |-> TRUE, id |-> pluggrId.id,
             customInstructions |-> pluggrId.customInstructions]
      [] OTHER ->
            [present |-> TRUE, id |-> pluggrId.id, customInstructions |-> customInstructions]

\* C23: the pluggrid query sends is {id: X} for a bare identifier X, the given
\* configuration for a configuration object, either with customInstructions C
\* attached and the id kept when C is given, {id: '', customInstructions: C}
\* when C is given with no pluggrid, and none when neither is given.
C23_PluggridComposition ==
    (call.api = "query" /\ dispatches >= 1)
    => wire.pluggrid = C23_Pluggrid(call.args.pluggrId, call.args.customInstructions)

C23_Witness ==
    /\ call.api = "query"
    /\ call.args.pluggrId.type = "string"
    /\ call.args.customInstructions = "ci"
    /\ dispatches >= 1
    /\ wire.pluggrid = [present |-> TRUE, id |-> "p1", customInstructions |-> "ci"]

\* the value the call supplies for an option, or the client's default
C24_Chosen(value, dfltValue) == IF value \in Missing THEN dfltValue ELSE value

\* C24: for each of model, inputEncoding and outputEncoding, the value query
\* sends is the call-level one when the call supplies it and the client's
\* default otherwise; a client given no default encodings has text and text.
C24_CallLevelWins ==
    /\ ConstructorDefaults("undef", "undef", "undef")
          = [inputEncoding |-> "text", outputEncoding |-> "text", model |-> "undef"]
    /\ (call.api = "query" /\ dispatches >= 1)
       => /\ wire.model = C24_Chosen(call.args.params.model, defaults.model)
          /\ wire.inputEncoding =
                C24_Chosen(call.args.params.inputEncoding, defaults.inputEncoding)
          /\ wire.outputEncoding =
                C24_Chosen(call.args.params.outputEncoding, defaults.outputEncoding)

\* C25: query composes a multipart body whenever the call supplies attachments
\* or metadata.mimeType, whatever the type of the prompt, and a single JSON
\* body in every other case.
C25_MultipartWhenAttachments ==
    (call.api = "query" /\ dispatches >= 1)
    => wire.format =
          IF call.args.params.attachments # "undef" \/ call.args.params.mimeType # "undef"
          THEN "multipart" ELSE "json"

\* C26: setToken and clearToken make no dispatch and leave the defaults, the
\* retry policy and the call in progress unchanged; afterwards the default
\* Authorization header is the new credential's, or absent after clearToken.
C26_TokenFrame ==
    [][(apiToken' # apiToken \/ headers' # headers)
       => /\ UNCHANGED <<retryConfig, defaults, call, wire, pc, stack, inflight,
                         waitTime, dispatches, outstanding, sent, result>>
          /\ Authorization(headers') = IF apiToken' = "null" THEN "none" ELSE apiToken'
      ]_vars

\* the part of C26 about the slot setToken and clearToken write
C26_CommonSlot ==
    [][(apiToken' # apiToken \/ headers' # headers)
       => /\ UNCHANGED <<retryConfig, defaults, call, wire, pc, stack, inflight,
                         waitTime, dispatches, outstanding, sent, result>>
          /\ headers'.common = IF apiToken' = "null" THEN "none" ELSE apiToken'
      ]_vars

\* the parameter bags the claim lists as invalid
C27_Invalid(params) ==
    \/ params.bag = "nonobject"
    \/ params.query \in {"nonstring", "empty"}
    \/ params.pluggrid \in {"nonobject", "noid"}
    \/ params.inputEncoding \notin InputEncodings \cup {"undef"}
    \/ params.outputEncoding \notin OutputEncodings \cup {"undef"}

\* C27: request given params fails with a Validation error before any dispatch
\* exactly when the bag is not an object, query is present and not a string or
\* is the empty string, pluggrid is present and not an object or has no id, or
\* an encoding is present and outside the enumerated sets.
C27_ValidateParamsExact ==
    (call.api = "request" /\ call.token # "null" /\ call.config.params.bag # "absent")
    => /\ (validateParams(call.config.params) # "ok") <=> C27_Invalid(call.config.params)
       /\ (pc = "rejected" /\ dispatches = 0 /\ result.kind = "Validation")
             <=> C27_Invalid(call.config.params)

\* C28: round trip: for every JSON-serializable value X (objects, arrays,
\* strings, numbers, booleans and null), decoding as json what encodeInput(X,
\* json) returned gives X again.
C28_JsonRoundTrip ==
    (/\ call.api = "processOutputEncoding"
     /\ call.args[1] \in JsonValues
     /\ call.args[2] = "json"
     /\ call.args[3] = "json")
    => (pc = "decoded" /\ result.value = call.args[1])

\* the round trip for the values that are not strings
C28_NonStringRoundTrip ==
    (/\ call.api = "processOutputEncoding"
     /\ call.args[1] \in JsonValues
     /\ call.args[1].type # "string"
     /\ call.args[2] = "json"
     /\ call.args[3] = "json")
    => (pc = "decoded" /\ result.value = call.args[1])

\* the stage of the call that fails first, from the caller's input and the
\* credential alone
C30_ValidationFails ==
    \/ call.args.prompt \in {"empty", "null"}
    \/ call.api = "rawQuery" /\ call.args.params.model \in Missing

C30_EncodingFails ==
    \/ call.args.prompt = "other"
    \/ call.args.prompt = "bytes" /\ EffectiveInputEncoding \notin BinaryFamily
    \/ /\ call.args.prompt = "bytes"
       /\ call.args.params.attachments = "invalid"

C30_DecodingErrors == {"Failed to parse response as JSON"}

\* C30: in every query and rawQuery call no dispatch happens unless validation,
\* composition and encoding succeeded and the credential is present; decoding
\* happens only after a dispatch succeeded; and the error returned is that of
\* the first stage that fails: validation, then encoding, then the dispatch
\* (with its credential check), then decoding.
C30_StagesInOrder ==
    call.api \in {"query", "rawQuery"}
    => /\ dispatches >= 1
          => (~C30_ValidationFails /\ ~C30_EncodingFails /\ call.token # "null")
       /\ C30_ValidationFails
          => /\ pc = "rejected" /\ dispatches = 0 /\ result.kind = "Validation"
             /\ result.message \in {"Prompt is required", "Model is required for raw queries"}
       /\ (~C30_ValidationFails /\ C30_EncodingFails)
          => /\ pc = "rejected" /\ dispatches = 0 /\ result.kind = "Validation"
             /\ result.message \in {"Prompt must be a string, Buffer, or ArrayBuffer",
                                    "Cannot use binary data with inputEncoding",
                                    "Invalid attachment data format for attachment"}
       /\ (~C30_ValidationFails /\ ~C30_EncodingFails /\ call.token = "null")
          => (pc = "rejected" /\ dispatches = 0 /\ result.kind = "Authentication")
       /\ (pc = "rejected" /\ result.message \in C30_DecodingErrors)
          => (dispatches >= 1 /\ lastOutcome.kind = "ok")
       /\ pc = "resolved" => (dispatches >= 1 /\ lastOutcome.kind = "ok")
       /\ (pc = "rejected" /\ dispatches >= 1 /\ lastOutcome.kind # "ok")
          => result.message \notin C30_DecodingErrors

C30_Witness ==
    /\ call.api = "query"
    /\ call.args.prompt = "empty"
    /\ call.token = "null"
    /\ pc = "rejected"
    /\ result.kind = "Validation"
    /\ dispatches = 0

-----------------------------------------------------------------------------
(* Further properties of the prompt, the retries and the credential *)

\* the input encoding in effect for the call: the call's, else the client's
C31_InputEncoding ==
    IF call.args.params.inputEncoding \in Missing
    THEN defaults.inputEncoding ELSE call.args.params.inputEncoding

\* C31: query and rawQuery fail with a Validation error and no dispatch when
\* the prompt is neither a string nor byte-backed, and when it is byte-backed
\* while the input encoding in effect is not image, audio, video or binary; a
\* byte-backed prompt is dispatched only with one of those four.
C31_BinaryPromptNeedsBinaryEncoding ==
    call.api \in {"query", "rawQuery"}
    => /\ (\/ call.args.prompt = "other"
           \/ call.args.prompt = "bytes" /\ C31_InputEncoding \notin BinaryFamily)
          => (pc = "rejected" /\ result.kind = "Validation" /\ dispatches = 0)
       /\ (call.args.prompt = "bytes" /\ dispatches >= 1)
          => C31_InputEncoding \in BinaryFamily

C31_Witness ==
    /\ call.api = "query"
    /\ call.args.prompt = "bytes"
    /\ call.args.params.inputEncoding = "undef"
    /\ defaults.inputEncoding = "json"
    /\ pc = "rejected"
    /\ result.message = "Cannot use binary data with inputEncoding"
    /\ dispatches = 0

\* C32: every call ends after at most maxRetries+1 dispatches whatever the
\* transport answers: the failure of a retry dispatch is handled with the
\* attempt count of the call so far (the number of dispatches already failed),
\* never with a count restarted at 0.
C32_BoundedDispatches ==
    /\ dispatches <= retryConfig.maxRetries + 1
    /\ (decision # <<>> /\ decision[1].error.name \in {"AxiosError", "Error"})
       => decision[1].attempt = dispatches - 1

\* C33: whatever the Retry-After header of the retried response (absent, 0, a
\* positive integer, or not a number), the wait before the next dispatch is
\* never shorter than the backoff min(initialDelay * backoffFactor^n, maxDelay)
\* computed by the handler that retries, n being its attempt number.
C33_WaitAtLeastBackoff ==
    (pc = "waiting" /\ decision # <<>>)
    => setTimeoutDelay(waitTime)
          >= backoffDelay(retryConfig, decision[Len(decision)].attempt)

\* the Authorization value of the stored credential
C34_Current == IF apiToken = "null" THEN "none" ELSE apiToken

\* C34: after construction and after any setToken and clearToken calls, the
\* default headers hold an Authorization value exactly when the stored
\* credential is not null, that value is the stored credential's, and no slot
\* of the default headers keeps the value of an earlier credential.
C34_HeaderMatchesCredential ==
    /\ Authorization(headers) = C34_Current
    /\ headers.own \in {"none", C34_Current}
    /\ headers.common \in {"none", C34_Current}

\* the credential was cleared after the call made its first dispatch
C35_ClearedDuringCall ==
    call.api = "request" /\ call.token # "null" /\ apiToken = "null" /\ dispatches >= 1

\* C35: the credential is checked once per call, before its first dispatch:
\* when clearToken runs while the call is in flight or waiting, the call still
\* retries and ends with the outcome of its last dispatch, never with the
\* 'API token not set' Authentication error.
C35_CredentialCheckedOnce ==
    C35_ClearedDuringCall
    => /\ pc = "rejected"
          => /\ result.message #
                   "API token not set. Please set a token before making requests."
             /\ result.kind = C8_Kind(lastOutcome)
             /\ result.statusCode = C8_StatusCode(lastOutcome)
       /\ pc = "resolved" => lastOutcome.kind = "ok"
       /\ (pc = "waiting" /\ dispatches < MaxDispatch) => ENABLED RetryDispatch

\* the part of C35 about the credential check alone
C35_NoLateCredentialCheck ==
    C35_ClearedDuringCall
    => /\ pc = "rejected"
          => result.message #
                "API token not set. Please set a token before making requests."
       /\ pc = "resolved" => lastOutcome.kind = "ok"
       /\ (pc = "waiting" /\ dispatches < MaxDispatch) => ENABLED RetryDispatch

\* C36: a failure that occurred before dispatch (neither response nor request)
\* after only retryable failures is retried, after a backoff wait, while the
\* retries made are fewer than maxRetries, and otherwise ends the call, after
\* maxRetries+1 dispatch attempts, with an Api error of statusCode 0.
C36_SetupFailureRetried ==
    (retryableRun /\ lastOutcome.kind = "setup")
    => /\ IF Completed <= retryConfig.maxRetries
          THEN pc \in {"waiting", "inflight"} /\ result = NoError
          ELSE /\ pc = "rejected"
               /\ dispatches = retryConfig.maxRetries + 1
               /\ result.kind = "Api"
               /\ result.statusCode = 0
       /\ waits = dispatches - 1

\* C37: query and rawQuery leave the pluggrid configuration object the caller
\* passed with the fields and values it had before the call, also when
\* customInstructions is supplied together with it.
C37_ArgumentsUnchanged ==
    call.api \in {"query", "rawQuery"} => call.pluggrIdAfter = call.args.pluggrId

\* C38: when a dispatch of query or rawQuery succeeds with an envelope that
\* has no data field, the call fails with the Api error 'Invalid response
\* received from the server' of statusCode 0 and no retry metadata; the
\* failure is not retried: no dispatch follows it, so a call whose first
\* dispatch succeeded made exactly one.
C38_MissingDataIsApiError ==
    (/\ call.api \in {"query", "rawQuery"}
     /\ lastOutcome.kind = "ok"
     /\ lastOutcome.body = "nodata")
    => /\ pc = "rejected"
       /\ result.kind = "Api"
       /\ result.statusCode = 0
       /\ result.message = "Invalid response received from the server"
       /\ result.attempt = Undefined
       /\ result.maxAttempts = Undefined
       /\ outstanding = 0
       /\ waits = 0 => dispatches = 1

C38_Witness ==
    /\ call.api = "rawQuery"
    /\ lastOutcome.kind = "ok"
    /\ lastOutcome.body = "nodata"
    /\ pc = "rejected"
    /\ result.kind = "Api"
    /\ dispatches = 1

\* the client's policy with another retry predicate
C39_With(cond) == [retryConfig EXCEPT !.retryCondition = cond]

C39_Predicates == {"none", "never", "on404", "always"}

\* C39: the retry predicate can only add retries and never overrides the cap.
\* For every failed outcome and attempt: at attempt >= maxRetries there is no
\* retry even with a predicate that accepts; a no-response failure or a listed
\* status below the cap is retried even with a predicate that refuses; the
\* predicate changes the decision only for a response whose status is not
\* listed, below the cap, and then only from no retry to retry.  The decisions
\* taken in the latest interceptor run obey the same.
C39_PredicateOnlyAddsRetries ==
    /\ \A o \in Outcomes("original") : \A a \in 0..MaxAttemptN :
          o.kind # "ok" =>
            LET e == TransportError(o)
                listed == e.response /\ e.status \in retryConfig.retryStatusCodes
            IN /\ a >= retryConfig.maxRetries
                    => ~shouldRetryRequest(e, a, C39_With("always"))
               /\ ((~e.response \/ listed) /\ a < retryConfig.maxRetries)
                    => shouldRetryRequest(e, a, C39_With("never"))
               /\ \A p \in C39_Predicates :
                     /\ shouldRetryRequest(e, a, C39_With("none"))
                           => shouldRetryRequest(e, a, C39_With(p))
                     /\ shouldRetryRequest(e, a, C39_With(p))
                           # shouldRetryRequest(e, a, C39_With("none"))
                        => (e.response /\ ~listed /\ a < retryConfig.maxRetries)
    /\ \A i \in 1..Len(decision) :
          LET e == decision[i].error IN
          /\ decision[i].retry => decision[i].attempt < retryConfig.maxRetries
          /\ (/\ decision[i].attempt < retryConfig.maxRetries
              /\ ~e.response \/ e.status \in retryConfig.retryStatusCodes)
             => decision[i].retry

\* a retry the predicate added: a 404, not listed, retried below the cap
C39_Witness ==
    /\ retryConfig.retryCondition = "on404"
    /\ decision # <<>>
    /\ decision[1].error.response
    /\ decision[1].error.status = 404
    /\ 404 \notin retryConfig.retryStatusCodes
    /\ decision[1].retry
    /\ pc = "waiting"

\* C40: the decoding that query and rawQuery apply to a successful result
\* equals the exported processOutputEncoding for every result value, output
\* encoding and formatOptions: same value returned, same error thrown.
C40_DecodingEqualsExported ==
    call.api = "query"
    => result = decodeOutput(call.args[1], call.args[2], call.args[3])

\* the part that agrees: the json encoding
C40_JsonDecodingEqualsExported ==
    (call.api = "query" /\ call.args[2] = "json")
    => result = decodeOutput(call.args[1], call.args[2], call.args[3])

\* the two also agree on a string result decoded under another encoding when
\* no format option applies to it
C40_PlainStringsAgree ==
    (/\ call.api = "query"
     /\ call.args[1].type = "string"
     /\ call.args[2] # "json"
     /\ (call.args[2] \in {"markdown", "html"} => call.args[3] = "undef"))
    => result = decodeOutput(call.args[1], call.args[2], call.args[3])

=============================================================================
